---- MODULE Spec2Model ----
(***************************************************************************)
(* BookFriend: ingestion pipeline, job tracker, chunk store and the        *)
(* chapter-filtered retrieval ("Spoiler Shield"), modelled from            *)
(* src/src/bookfriend.                                                     *)
(*                                                                         *)
(* Four specifications share this module:                                   *)
(*   Spec       the service: HTTP handlers, the background worker of each  *)
(*              ingestion job and the tables they read and write;          *)
(*   SpecChunk  smart_chunking run on every text of a bounded set, one     *)
(*              loop iteration per step;                                   *)
(*   SpecDoc    process_and_ingest_pdf run on every document of a bounded  *)
(*              family, one chapter per step;                              *)
(*   SpecApi    the service behind its HTTP boundary: every request        *)
(*              carries an X-API-Key header and leaves a response.         *)
(***************************************************************************)
EXTENDS Integers, Sequences, FiniteSets, TLC

VARIABLES
    \* ---- tables (database.py, models.py) ----
    books,        \* set of rows [id, filename] of table books (title is not read back
                  \* by anything but the prompt, index_path is a fixed string)
    chunks,       \* set of rows of table book_chunks
    messages,     \* sequence of rows of table messages (ORDER BY id)
    jobs,         \* sequence of rows of table ingest_jobs; job id = index
    \* ---- request and worker state (api.py) ----
    tasks,        \* per job: the background task _run_ingest: its position, its
                  \* locals book_id and e, the document in its temp PDF, and the
                  \* rows its upsert has committed
    staged,       \* set of job ids whose temp PDF exists under /tmp
    queries,      \* sequence of POST /v1/query requests, each with its position,
                  \* its locals, and whether generate_answer was called
    nextBook,     \* number of book ids generated so far
    deleted,      \* history: ids of the books delete_book has removed
    \* ---- smart_chunking (ingest.py) ----
    ckText, ckSize, ckOverlap, ckSents, ckI, ckCurrent, ckChunks, ckPc,
    \* ---- process_and_ingest_pdf (ingest.py) ----
    dcDoc,        \* the document in the PDF
    dcRaw,        \* raw_chapters
    dcI,          \* the loop index i (positions count from 1 here)
    dcAllChunks,  \* all_chunks
    dcAllChapters,\* all_chapters
    dcParams,     \* the rows upsert_book_to_supabase builds from the two lists
    dcPc,
    \* ---- HTTP boundary (api.py) ----
    apiKey,       \* BOOKFRIEND_API_KEY as read at import
    resp          \* the last response sent to a client

sysVars == <<books, chunks, messages, jobs, tasks, staged, queries,
             nextBook, deleted>>
ckVars  == <<ckText, ckSize, ckOverlap, ckSents, ckI, ckCurrent, ckChunks, ckPc>>
dcVars  == <<dcDoc, dcRaw, dcI, dcAllChunks, dcAllChapters, dcParams, dcPc>>
apiVars == <<apiKey, resp>>
vars    == <<sysVars, ckVars, dcVars, apiVars>>

----------------------------------------------------------------------------
(* Bounds *)

MaxTextLen   == 7     \* characters of a text handed to smart_chunking
MaxChunkSize == 4     \* largest chunk_size tried in SpecChunk
MaxOverlap   == 2     \* largest overlap_sentences tried in SpecChunk

----------------------------------------------------------------------------
(* Generic helpers *)

Min(a, b) == IF a < b THEN a ELSE b
Max(a, b) == IF a > b THEN a ELSE b

RECURSIVE SumSeq(_)
SumSeq(s) == IF s = <<>> THEN 0 ELSE Head(s) + SumSeq(Tail(s))

RECURSIVE Flatten(_)
Flatten(ss) == IF ss = <<>> THEN <<>> ELSE Head(ss) \o Flatten(Tail(ss))

Range(s) == {s[i] : i \in DOMAIN s}

----------------------------------------------------------------------------
(* smart_chunking, ingest.py:6-31.  A text is a sequence of characters.    *)

Chars      == {"a", ".", " "}
SentenceEnd == {".", "!", "?"}          \* the class [.!?] of the split pattern
Whitespace == {" "}                     \* the characters \s matches here

TextsUpTo(n) == UNION {[1..k -> Chars] : k \in 0..n}

\* first position at or after k, last position at or before k, that holds no
\* whitespace (Len(s) + 1 and 0 when there is none)
RECURSIVE FirstInk(_, _)
FirstInk(s, k) ==
    IF k > Len(s) \/ s[k] \notin Whitespace THEN k ELSE FirstInk(s, k + 1)
RECURSIVE LastInk(_, _)
LastInk(s, k) ==
    IF k < 1 \/ s[k] \notin Whitespace THEN k ELSE LastInk(s, k - 1)

\* str.strip(): drop leading and trailing whitespace
Strip(s) ==
    LET a == FirstInk(s, 1)
        b == LastInk(s, Len(s))
    IN  IF a > b THEN <<>> ELSE SubSeq(s, a, b)

\* index of the first character at or after i that is not whitespace
SkipSpace(t, i) ==
    LET rest == {k \in i..Len(t) : t[k] \notin Whitespace}
    IN  IF rest = {} THEN Len(t) + 1 ELSE CHOOSE k \in rest : \A m \in rest : k <= m

\* the positions where a whitespace run directly follows a sentence end
CutPoints(t) == {k \in 2..Len(t) : t[k] \in Whitespace /\ t[k - 1] \in SentenceEnd}

\* re.split(r'(?<=[.!?])\s+', text): cut at every whitespace run that directly
\* follows a sentence-ending character; the run itself is dropped.
RECURSIVE SplitFrom(_, _)
SplitFrom(t, from) ==
    LET cuts == {k \in CutPoints(t) : k >= from}
    IN  IF cuts = {} THEN <<SubSeq(t, from, Len(t))>>
        ELSE LET c == CHOOSE k \in cuts : \A m \in cuts : k <= m
             IN  <<SubSeq(t, from, c - 1)>> \o SplitFrom(t, SkipSpace(t, c))

re_split(t) == SplitFrom(t, 1)

\* " ".join(list of sentences)
RECURSIVE Join(_)
Join(ss) == IF ss = <<>> THEN <<>>
            ELSE IF Len(ss) = 1 THEN ss[1]
            ELSE ss[1] \o <<" ">> \o Join(Tail(ss))

\* `current` holds sentences of the list `sents`; it is kept as the sequence
\* of their positions in sents, TextOf gives the strings themselves.
TextOf(sents, cur) == [k \in 1..Len(cur) |-> sents[cur[k]]]

\* current_len(): sum(len(s) for s in current)
current_len(sents, cur) == SumSeq([k \in 1..Len(cur) |-> Len(sents[cur[k]])])

\* a variant of OverlapSeed that takes the first sentences of the chunk
OverlapSeedLeading(cur, overlap) ==
    IF overlap > 0 THEN SubSeq(cur, 1, Min(overlap, Len(cur)))
    ELSE <<>>

\* current[-overlap_sentences:] if overlap_sentences > 0 else []
OverlapSeed(cur, overlap) ==
    IF overlap > 0 THEN SubSeq(cur, Max(1, Len(cur) - overlap + 1), Len(cur))
    ELSE <<>>

\* while current_len() + len(sentence) > chunk_size and len(current) > 0: current.pop(0)
RECURSIVE Evict(_, _, _, _)
Evict(sents, cur, i, size) ==
    IF current_len(sents, cur) + Len(sents[i]) > size /\ Len(cur) > 0
    THEN Evict(sents, Tail(cur), i, size)
    ELSE cur

\* the test that closes the current chunk, ingest.py:19
Overflows(sents, cur, i, size) == current_len(sents, cur) + Len(sents[i]) > size

\* the overflow branch, ingest.py:20-25: the new value of <<chunks, current>>
CloseChunk(sents, chs, cur, i, size, overlap) ==
    <<Append(chs, cur), Append(Evict(sents, OverlapSeed(cur, overlap), i, size), i)>>

\* one iteration of the loop body for sentence i, ingest.py:15-27
ChunkStep(sents, chs, cur, i, size, overlap) ==
    IF Strip(sents[i]) = <<>> THEN <<chs, cur>>
    ELSE IF Overflows(sents, cur, i, size)
         THEN CloseChunk(sents, chs, cur, i, size, overlap)
         ELSE <<chs, Append(cur, i)>>

\* a variant of Flush that forgets the last, partly filled chunk
FlushDropsTail(chs, cur) == chs

\* if current: chunks.append(" ".join(current)), ingest.py:29-30
Flush(chs, cur) == IF cur # <<>> THEN Append(chs, cur) ELSE chs

\* the sentences the loop works on: each piece of the split, stripped
StrippedPieces(t) == LET p == re_split(t) IN [k \in 1..Len(p) |-> Strip(p[k])]

RECURSIVE ChunkFrom(_, _, _, _, _, _)
ChunkFrom(sents, chs, cur, i, size, overlap) ==
    IF i > Len(sents) THEN Flush(chs, cur)
    ELSE LET st == ChunkStep(sents, chs, cur, i, size, overlap)
         IN  ChunkFrom(sents, st[1], st[2], i + 1, size, overlap)

\* the chunks as lists of sentence positions, and as the strings returned
ChunkPositions(sents, size, overlap) == ChunkFrom(sents, <<>>, <<>>, 1, size, overlap)
ChunkStrings(sents, chs) == [k \in 1..Len(chs) |-> Join(TextOf(sents, chs[k]))]
smart_chunking(t, size, overlap) ==
    ChunkStrings(StrippedPieces(t), ChunkPositions(StrippedPieces(t), size, overlap))

----------------------------------------------------------------------------
(* SpecChunk: smart_chunking as a loop *)

CkInit ==
    /\ ckText \in TextsUpTo(MaxTextLen)
    /\ ckSize \in 1..MaxChunkSize
    /\ ckOverlap \in 0..MaxOverlap
    /\ ckSents = <<>>
    /\ ckI = 0
    /\ ckCurrent = <<>>
    /\ ckChunks = <<>>
    /\ ckPc = "split"

\* sentences = re.split(...); chunks = []; current = []
CkSplit ==
    /\ ckPc = "split"
    /\ ckSents' = StrippedPieces(ckText)
    /\ ckI' = 1
    /\ ckPc' = "loop"
    /\ UNCHANGED <<ckText, ckSize, ckOverlap, ckCurrent, ckChunks, sysVars, dcVars, apiVars>>

\* one pass of `for sentence in sentences`
CkIterate ==
    /\ ckPc = "loop"
    /\ ckI <= Len(ckSents)
    /\ LET st == ChunkStep(ckSents, ckChunks, ckCurrent, ckI, ckSize, ckOverlap)
       IN  /\ ckChunks' = st[1]
           /\ ckCurrent' = st[2]
    /\ ckI' = ckI + 1
    /\ UNCHANGED <<ckText, ckSize, ckOverlap, ckSents, ckPc, sysVars, dcVars, apiVars>>

\* the loop has ended: flush and return
CkReturn ==
    /\ ckPc = "loop"
    /\ ckI > Len(ckSents)
    /\ ckChunks' = Flush(ckChunks, ckCurrent)
    /\ ckPc' = "done"
    /\ UNCHANGED <<ckText, ckSize, ckOverlap, ckSents, ckI, ckCurrent, sysVars, dcVars, apiVars>>

----------------------------------------------------------------------------
(* Documents and process_and_ingest_pdf, ingest.py:34-75 *)

MinChapterLen    == 500     \* len(chapter_content) < 500: the chapter is skipped
DefaultChunkSize == 800     \* smart_chunking's default chunk_size
DefaultOverlap   == 2       \* smart_chunking's default overlap_sentences
NULL             == 0       \* None / SQL NULL in an id column

\* a sentence of n characters, and a text made of sentences of the given lengths
Sentence(n) == [k \in 1..n |-> IF k = n THEN "." ELSE "a"]
TextOfLens(lens) == Join([k \in 1..Len(lens) |-> Sentence(lens[k])])

\* A document is the text the PDF pages yield, kept as the pieces between and
\* at its "Chapter <integer>" headings: a heading piece carries its integer.
Heading(n) == [kind |-> "heading", num |-> n, text |-> <<>>]
Body(t)    == [kind |-> "text", num |-> NULL, text |-> t]

Docs == <<
    \* 1: a PDF with no extractable text
    <<>>,
    \* 2: no heading at all
    <<Body(<<" ">> \o TextOfLens(<<3, 4>>))>>,
    \* 3: chapter 1 fills two chunks, chapter 2 one, chapter 3 is too short
    <<Body(TextOfLens(<<6>>)),
      Heading(1), Body(<<" ">> \o TextOfLens(<<300, 299, 301>>) \o <<" ">>),
      Heading(2), Body(<<" ">> \o TextOfLens(<<250, 252>>)),
      Heading(3), Body(<<" ">> \o TextOfLens(<<499>>))>>
>>
DocIds == DOMAIN Docs

\* re.split(r'(Chapter\s+\d+)', full_text): [text0, heading1, text1, heading2, ...]
RECURSIVE RawChaptersFrom(_, _, _)
RawChaptersFrom(doc, i, acc) ==
    IF i > Len(doc) THEN acc
    ELSE IF doc[i].kind = "heading"
         THEN RawChaptersFrom(doc, i + 1, acc \o <<doc[i], Body(<<>>)>>)
         ELSE RawChaptersFrom(doc, i + 1,
                [acc EXCEPT ![Len(acc)] = Body(@.text \o doc[i].text)])
RawChapters(doc) == RawChaptersFrom(doc, 1, <<Body(<<>>)>>)

\* "".join(page texts): the full text, headings included, of the heading-free case
FullText(doc) == Flatten([k \in 1..Len(doc) |-> doc[k].text])

\* the chunks of one chapter body, each tagged with chap_num
TagChunks(text, chap_num) ==
    LET cs == smart_chunking(text, DefaultChunkSize, DefaultOverlap)
    IN  [k \in 1..Len(cs) |-> [chapter_num |-> chap_num, chunk_text |-> cs[k]]]

\* the loop over raw_chapters[1], raw_chapters[3], ..., ingest.py:48-64
RECURSIVE ChaptersFrom(_, _)
ChaptersFrom(raw, i) ==
    IF i > Len(raw) THEN <<>>
    ELSE LET chapter_content == Strip(raw[i + 1].text)
         IN  IF Len(chapter_content) < MinChapterLen
             THEN ChaptersFrom(raw, i + 2)
             ELSE TagChunks(chapter_content, raw[i].num) \o ChaptersFrom(raw, i + 2)

\* all_chunks zipped with all_chapters, ingest.py:41-70
AllChunks(doc) ==
    LET raw == RawChapters(doc)
    IN  IF Len(raw) > 1 THEN ChaptersFrom(raw, 2)
        ELSE TagChunks(FullText(doc), 0)

\* computed once per document
DocChunks == <<AllChunks(Docs[1]), AllChunks(Docs[2]), AllChunks(Docs[3])>>

----------------------------------------------------------------------------
(* SpecDoc: process_and_ingest_pdf as a loop over the chapters of a document *)

MaxDocChapters == 2     \* headings in a document of the family
MaxHeading     == 2     \* largest integer in a heading

\* sentence lengths of a page or chapter body: empty, just below and just at
\* the threshold, and long enough to fill two chunks
BodyLens == {<<>>, <<499>>, <<500>>, <<300, 299, 301>>}
\* extracted text comes with whitespace around it
Padded(lens) == <<" ">> \o TextOfLens(lens) \o <<" ">>

Chapters == {<<Heading(n), Body(Padded(l))>> : n \in 1..MaxHeading, l \in BodyLens}
RECURSIVE ChapterLists(_)
ChapterLists(n) ==
    IF n = 0 THEN {<<>>}
    ELSE {c \o rest : c \in Chapters, rest \in ChapterLists(n - 1)}

\* documents with headings, with or without text before the first one
WithHeadings ==
    {pre \o chs : pre \in {<<>>, <<Body(Padded(<<6>>))>>},
                  chs \in UNION {ChapterLists(n) : n \in 1..MaxDocChapters}}
\* documents without a heading: no page, one page, two pages
HeadingFree ==
    {<<>>} \cup {<<Body(Padded(l))>> : l \in BodyLens}
           \cup {<<Body(Padded(l)), Body(TextOfLens(m))>> : l, m \in BodyLens}
DocFamily == WithHeadings \cup HeadingFree

\* a variant of TooShort that measures the chapter text before it is stripped
TooShortUnstripped(raw, i) == Len(raw[i + 1].text) < MinChapterLen

\* chapter_content = raw_chapters[i + 1].strip(); len(chapter_content) < 500
TooShort(raw, i) == Len(Strip(raw[i + 1].text)) < MinChapterLen

\* a variant of ChapterTags that tags chunk k with k
ChapterTagsByPosition(n, chap_num) == [k \in 1..n |-> k]

\* [chap_num] * len(chunks)
ChapterTags(n, chap_num) == [k \in 1..n |-> chap_num]

\* a variant of WholeDocument that chunks the first page only
WholeDocumentFirstPage(doc) ==
    smart_chunking(IF doc = <<>> THEN <<>> ELSE doc[1].text,
                   DefaultChunkSize, DefaultOverlap)

\* chunks = smart_chunking(full_text), ingest.py:68
WholeDocument(doc) == smart_chunking(FullText(doc), DefaultChunkSize, DefaultOverlap)

\* zip(chunks, chapters, embeddings) with book_id, semantic_utils.py:30-39;
\* zip stops at the end of the shorter list
ZipParams(chs, tags) ==
    [k \in 1..Min(Len(chs), Len(tags)) |->
        [chapter_num |-> tags[k], chunk_text |-> chs[k]]]

DcIdle ==
    /\ dcDoc = <<>> /\ dcRaw = <<>> /\ dcI = 0 /\ dcAllChunks = <<>>
    /\ dcAllChapters = <<>> /\ dcParams = <<>> /\ dcPc = "idle"

DcInit ==
    /\ dcDoc \in DocFamily
    /\ dcRaw = <<>>
    /\ dcI = 0
    /\ dcAllChunks = <<>>
    /\ dcAllChapters = <<>>
    /\ dcParams = <<>>
    /\ dcPc = "split"

\* raw_chapters = re.split(...); all_chunks = []; all_chapters = [];
\* if len(raw_chapters) > 1
DcSplit ==
    /\ dcPc = "split"
    /\ dcRaw' = RawChapters(dcDoc)
    /\ dcI' = 2
    /\ dcPc' = IF Len(RawChapters(dcDoc)) > 1 THEN "loop" ELSE "whole"
    /\ UNCHANGED <<dcDoc, dcAllChunks, dcAllChapters, dcParams, sysVars, ckVars, apiVars>>

\* one pass of the loop whose chapter is too short: continue
DcSkipChapter ==
    /\ dcPc = "loop"
    /\ dcI <= Len(dcRaw)
    /\ TooShort(dcRaw, dcI)
    /\ dcI' = dcI + 2
    /\ UNCHANGED <<dcDoc, dcRaw, dcAllChunks, dcAllChapters, dcParams, dcPc,
                   sysVars, ckVars, apiVars>>

\* one pass of the loop that chunks the chapter, ingest.py:56-65
DcChunkChapter ==
    /\ dcPc = "loop"
    /\ dcI <= Len(dcRaw)
    /\ ~TooShort(dcRaw, dcI)
    /\ LET chap_num == dcRaw[dcI].num
           cs == smart_chunking(Strip(dcRaw[dcI + 1].text),
                                DefaultChunkSize, DefaultOverlap)
       IN  /\ dcAllChunks' = dcAllChunks \o cs
           /\ dcAllChapters' = dcAllChapters \o ChapterTags(Len(cs), chap_num)
    /\ dcI' = dcI + 2
    /\ UNCHANGED <<dcDoc, dcRaw, dcParams, dcPc, sysVars, ckVars, apiVars>>

\* the loop has ended
DcLoopEnd ==
    /\ dcPc = "loop"
    /\ dcI > Len(dcRaw)
    /\ dcPc' = "check"
    /\ UNCHANGED <<dcDoc, dcRaw, dcI, dcAllChunks, dcAllChapters, dcParams,
                   sysVars, ckVars, apiVars>>

\* the else branch, ingest.py:66-70: the full text as chapter 0
DcWhole ==
    /\ dcPc = "whole"
    /\ dcAllChunks' = dcAllChunks \o WholeDocument(dcDoc)
    /\ dcAllChapters' = dcAllChapters \o ChapterTags(Len(WholeDocument(dcDoc)), 0)
    /\ dcPc' = "check"
    /\ UNCHANGED <<dcDoc, dcRaw, dcI, dcParams, sysVars, ckVars, apiVars>>

\* if not all_chunks: raise ValueError(...)
DcRaise ==
    /\ dcPc = "check"
    /\ dcAllChunks = <<>>
    /\ dcPc' = "raised"
    /\ UNCHANGED <<dcDoc, dcRaw, dcI, dcAllChunks, dcAllChapters, dcParams,
                   sysVars, ckVars, apiVars>>

\* upsert_book_to_supabase(book_id, all_chunks, all_chapters)
DcUpsert ==
    /\ dcPc = "check"
    /\ dcAllChunks # <<>>
    /\ dcParams' = ZipParams(dcAllChunks, dcAllChapters)
    /\ dcPc' = "stored"
    /\ UNCHANGED <<dcDoc, dcRaw, dcI, dcAllChunks, dcAllChapters, sysVars, ckVars, apiVars>>

----------------------------------------------------------------------------
(* Embedding and retrieval, semantic_utils.py *)

NVec == 3      \* size of the stand-in vector space

\* SEM_MODEL.encode: an opaque, deterministic map from text to a vector
Embed(text) == Len(text) % NVec
\* embedding <=> query vector: the distance the store orders by
Distance(e, q) == IF e > q THEN e - q ELSE q - e

\* one row of book_chunks.  chunk_text is kept as <<document, position>>;
\* ChunkText gives the string.
ChunkRow(book_id, d, k) ==
    [book_id |-> book_id, chapter_num |-> DocChunks[d][k].chapter_num,
     chunk_text |-> <<d, k>>, embedding |-> Embed(DocChunks[d][k].chunk_text)]

\* a variant of UpsertParams that loses the last chunk of the document
UpsertParamsShort(book_id, d) ==
    {ChunkRow(book_id, d, k) : k \in 1..(Len(DocChunks[d]) - 1)}

\* params = [... for chunk, chapter, emb in zip(chunks, chapters, embeddings)],
\* semantic_utils.py:30-39: the rows upsert_book_to_supabase inserts
UpsertParams(book_id, d) ==
    {ChunkRow(book_id, d, k) : k \in 1..Len(DocChunks[d])}
ChunkText(row) == DocChunks[row.chunk_text[1]][row.chunk_text[2]].chunk_text

\* a variant of Eligible that leaves the chapter filter out of the WHERE clause
EligibleAnyChapter(store, book_id, chapter_limit) ==
    {c \in store : c.book_id = book_id}

\* WHERE book_id = :book_id [AND chapter_num <= :chapter_limit]
\* chapter_limit is <<>> for None and <<C>> for the integer C
NoLimit == <<>>
Limit(c) == <<c>>
Eligible(store, book_id, chapter_limit) ==
    {c \in store : /\ c.book_id = book_id
                   /\ (chapter_limit # NoLimit => c.chapter_num <= chapter_limit[1])}

\* a variant of OrderedBy that sorts the farthest rows first
RECURSIVE OrderedByFarthest(_, _)
OrderedByFarthest(rows, q) ==
    IF rows = {} THEN {<<>>}
    ELSE LET first == {c \in rows : \A d \in rows :
                          Distance(c.embedding, q) >= Distance(d.embedding, q)}
         IN  UNION {{<<c>> \o s : s \in OrderedByFarthest(rows \ {c}, q)} : c \in first}

\* ORDER BY embedding <=> :embedding: every order of the rows that is sorted by
\* distance, nearest first (the store breaks ties as it likes)
RECURSIVE OrderedBy(_, _)
OrderedBy(rows, q) ==
    IF rows = {} THEN {<<>>}
    ELSE LET first == {c \in rows : \A d \in rows :
                          Distance(c.embedding, q) <= Distance(d.embedding, q)}
         IN  UNION {{<<c>> \o s : s \in OrderedBy(rows \ {c}, q)} : c \in first}

\* LIMIT :top_k, then the tuples (f"chapter_{n}", chunk_text, similarity_score)
ResultRow(c, q) ==
    [source |-> <<"chapter_", c.chapter_num>>, text |-> c.chunk_text,
     score |-> 1 - Distance(c.embedding, q),
     book_id |-> c.book_id, chapter_num |-> c.chapter_num]

\* semantic_search: the set of results the store may return
semantic_search(store, q, book_id, chapter_limit, top_k) ==
    {[k \in 1..Min(top_k, Len(s)) |-> ResultRow(s[k], q)]
        : s \in OrderedBy(Eligible(store, book_id, chapter_limit), q)}

----------------------------------------------------------------------------
(* The service: bounds and inputs *)

MaxJobs    == 2      \* ingestion jobs accepted in one run
MaxQueries == 1      \* POST /v1/query requests that get past the book lookup
MaxChapter == 1      \* largest chapter_limit a query carries

\* uploaded file names: "a b" and "a_b" normalise to the same name
FileNames == {<<"a", " ", "b">>, <<"a", "_", "b">>}
Users     == {"u1"}
BookIds   == 1..(MaxJobs + 1)       \* ids a client may ask for; the last is never issued
JobIds    == 1..(MaxJobs + 1)
QueryIds  == 1..MaxQueries

\* file.filename.replace(" ", "_"), api.py:115
Normalize(f) == [k \in DOMAIN f |-> IF f[k] = " " THEN "_" ELSE f[k]]

MaxApiJobs == 1      \* ingestion jobs accepted in one run of SpecApi

\* None: the environment variable is not set, the header is not sent
Missing        == "(none)"
ValidKey       == "test-secret-key"
ConfiguredKeys == {Missing, ValidKey}
HeaderKeys     == {Missing, ValidKey, "wrong-key"}
Endpoints      == {"books", "ingest", "jobs", "delete", "query"}

\* a variant of verify_api_key that lets a request without header through
verify_api_key_lenient(x_api_key) ==
    IF apiKey = Missing THEN 500
    ELSE IF x_api_key # apiKey /\ x_api_key # Missing THEN 401
    ELSE 0

\* verify_api_key, api.py:22-26: the status of the HTTPException it raises,
\* 0 when it returns
verify_api_key(x_api_key) ==
    IF apiKey = Missing THEN 500
    ELSE IF x_api_key # apiKey THEN 401
    ELSE 0

\* a response: the endpoint and header of its request, the id in its path or
\* body, the status code, and the fields of the body the claims read
Response(endpoint, key, id, code) ==
    [endpoint |-> endpoint, key |-> key, id |-> id, code |-> code,
     job_id |-> NULL, status |-> "", answer |-> <<>>, sources |-> <<>>]
NoResponse == Response("none", Missing, NULL, 0)

NoError      == "None"
ErrNoContent == "No text could be extracted or chunked from the PDF."
ErrRegister  == "register_book failed"
ErrPipeline  == "extraction, embedding or upload failed"
ErrTracker   == "update_job failed"

\* texts are sequences; an answer is kept as a one-element sequence
FallbackAnswer == <<"I couldn't find anything about that in the book up to this chapter.">>
\* what can happen inside generate_answer: GROQ_API_KEY is not set, the
\* completion call returns, or it raises
GeneratorOutcomes == {"no_key", "completed", "raised"}

\* a variant of generate_answer that lets the failure of the completion call
\* out instead of returning a placeholder
generate_answer_raising(outcome) ==
    IF outcome = "no_key" THEN <<"Error: Missing GROQ_API_KEY in .env file.">>
    ELSE IF outcome = "completed" THEN <<"completion">>
    ELSE <<"exception">>

\* generate_answer, answer_generator.py:8-59: the string it returns
generate_answer(outcome) ==
    IF outcome = "no_key" THEN <<"Error: Missing GROQ_API_KEY in .env file.">>
    ELSE IF outcome = "completed" THEN <<"completion">>
    ELSE <<"Groq Error">>

Answers == {generate_answer(o) : o \in GeneratorOutcomes}
\* the query texts a client sends; Embed separates them
QueryTexts == {<<"a", "a">>}

QueryTopK == 3       \* top_k=3 in query_book

----------------------------------------------------------------------------
(* database.py *)

\* book_exists_by_filename, database.py:49-59
book_exists_by_filename(filename) == \E b \in books : b.filename = filename

BookRow(id) == {b \in books : b.id = id}

\* a variant of NewJob whose row starts in status processing
NewJobProcessing(filename) ==
    [filename |-> filename, status |-> "processing", book_id |-> NULL, error |-> NoError]

\* create_job, database.py:93-103: the new row
NewJob(filename) ==
    [filename |-> filename, status |-> "pending", book_id |-> NULL, error |-> NoError]

\* a variant of update_job that sets book_id = :book_id without COALESCE
update_job_overwrite(js, job_id, status, book_id, error) ==
    [js EXCEPT ![job_id] =
        [@ EXCEPT !.status = status, !.book_id = book_id, !.error = error]]

\* update_job, database.py:106-123: SET status, book_id = COALESCE(:book_id, book_id),
\* error = :error WHERE id = :id
update_job(js, job_id, status, book_id, error) ==
    [js EXCEPT ![job_id] =
        [@ EXCEPT !.status = status,
                  !.book_id = IF book_id # NULL THEN book_id ELSE @,
                  !.error = error]]

\* log_message, database.py:139-159: the row inserted
MessageRow(user_id, book_id, role, content, chapter_limit) ==
    [user_id |-> user_id, book_id |-> book_id, role |-> role,
     content |-> content, chapter_limit |-> chapter_limit]

\* get_chat_history, database.py:162-177
get_chat_history(user_id, book_id) ==
    SelectSeq(messages, LAMBDA m : m.user_id = user_id /\ m.book_id = book_id)

----------------------------------------------------------------------------
(* Init *)

CkIdle ==
    /\ ckText = <<>> /\ ckSize = 0 /\ ckOverlap = 0 /\ ckSents = <<>>
    /\ ckI = 0 /\ ckCurrent = <<>> /\ ckChunks = <<>> /\ ckPc = "idle"

SysInit ==
    /\ books = {}
    /\ chunks = {}
    /\ messages = <<>>
    /\ jobs = <<>>
    /\ tasks = <<>>
    /\ staged = {}
    /\ queries = <<>>
    /\ nextBook = 0
    /\ deleted = {}

\* the key is configured and no request has been answered
ApiIdle == apiKey = ValidKey /\ resp = NoResponse

Init == SysInit /\ CkIdle /\ DcIdle /\ ApiIdle

----------------------------------------------------------------------------
(* POST /v1/ingest, api.py:113-150 *)

\* the duplicate check passes: stage the file, create the job, schedule the task
IngestAccept(file, d) ==
    LET safe_filename == Normalize(file)
        job_id == Len(jobs) + 1
    IN  /\ Len(jobs) < MaxJobs
        /\ ~book_exists_by_filename(safe_filename)
        /\ staged' = staged \cup {job_id}
        /\ jobs' = Append(jobs, NewJob(safe_filename))
        /\ tasks' = Append(tasks, [pc |-> "queued", book_id |-> NULL, exc |-> NoError,
                                   doc |-> d, stored |-> {}])
        /\ UNCHANGED <<books, chunks, messages, queries, nextBook, deleted, ckVars, dcVars>>

\* the duplicate check fails: 409
IngestConflict(file) ==
    /\ book_exists_by_filename(Normalize(file))
    /\ UNCHANGED <<books, chunks, messages, jobs, tasks, staged, queries,
                   nextBook, deleted, ckVars, dcVars>>

----------------------------------------------------------------------------
(* _run_ingest, api.py:72-99: the background task of job j, one call per step *)

\* database.update_job(job_id, status="processing")
RunStart(j) ==
    /\ j \in DOMAIN tasks
    /\ tasks[j].pc = "queued"
    /\ jobs' = update_job(jobs, j, "processing", NULL, NoError)
    /\ tasks' = [tasks EXCEPT ![j].pc = "register"]
    /\ UNCHANGED <<books, chunks, messages, staged, queries, nextBook, deleted, ckVars, dcVars>>

\* update_job(status="processing") raises (the UPDATE fails, nothing is
\* committed): control goes to the except clause
RunStartError(j) ==
    /\ j \in DOMAIN tasks
    /\ tasks[j].pc = "queued"
    /\ tasks' = [tasks EXCEPT ![j].pc = "except", ![j].exc = ErrTracker]
    /\ UNCHANGED <<books, chunks, messages, jobs, staged, queries,
                   nextBook, deleted, ckVars, dcVars>>

\* register_book, database.py:33-46: a fresh id, one row in books
register_book(j) ==
    /\ nextBook' = nextBook + 1
    /\ books' = books \cup {[id |-> nextBook + 1, filename |-> jobs[j].filename]}
    /\ tasks' = [tasks EXCEPT ![j].pc = "attach", ![j].book_id = nextBook + 1]

RunRegister(j) ==
    /\ j \in DOMAIN tasks
    /\ tasks[j].pc = "register"
    /\ register_book(j)
    /\ UNCHANGED <<chunks, messages, jobs, staged, queries, deleted, ckVars, dcVars>>

\* register_book raises (the insert fails): control goes to the except clause
RunRegisterError(j) ==
    /\ j \in DOMAIN tasks
    /\ tasks[j].pc = "register"
    /\ tasks' = [tasks EXCEPT ![j].pc = "except", ![j].exc = ErrRegister]
    /\ UNCHANGED <<books, chunks, messages, jobs, staged, queries,
                   nextBook, deleted, ckVars, dcVars>>

\* a variant of RunAttach that reports the job done as soon as the book is registered
RunAttachDone(j) ==
    /\ j \in DOMAIN tasks
    /\ tasks[j].pc = "attach"
    /\ jobs' = update_job(jobs, j, "done", tasks[j].book_id, NoError)
    /\ tasks' = [tasks EXCEPT ![j].pc = "process"]
    /\ UNCHANGED <<books, chunks, messages, staged, queries, nextBook, deleted, ckVars, dcVars>>

\* database.update_job(job_id, status="processing", book_id=book_id)
RunAttach(j) ==
    /\ j \in DOMAIN tasks
    /\ tasks[j].pc = "attach"
    /\ jobs' = update_job(jobs, j, "processing", tasks[j].book_id, NoError)
    /\ tasks' = [tasks EXCEPT ![j].pc = "process"]
    /\ UNCHANGED <<books, chunks, messages, staged, queries, nextBook, deleted, ckVars, dcVars>>

\* update_job(status="processing", book_id=book_id) raises
RunAttachError(j) ==
    /\ j \in DOMAIN tasks
    /\ tasks[j].pc = "attach"
    /\ tasks' = [tasks EXCEPT ![j].pc = "except", ![j].exc = ErrTracker]
    /\ UNCHANGED <<books, chunks, messages, jobs, staged, queries,
                   nextBook, deleted, ckVars, dcVars>>

\* upsert_book_to_supabase, semantic_utils.py:12-50: one transaction inserts
\* every row
upsert_book_to_supabase(book_id, d) == chunks' = chunks \cup UpsertParams(book_id, d)

\* process_and_ingest_pdf returns: the document has chunks and all are stored
RunProcess(j) ==
    /\ j \in DOMAIN tasks
    /\ tasks[j].pc = "process"
    /\ DocChunks[tasks[j].doc] # <<>>
    /\ upsert_book_to_supabase(tasks[j].book_id, tasks[j].doc)
    /\ tasks' = [tasks EXCEPT ![j].pc = "done", ![j].stored = chunks' \ chunks]
    /\ UNCHANGED <<books, messages, jobs, staged, queries, nextBook, deleted, ckVars, dcVars>>

\* if not all_chunks: raise ValueError(...), ingest.py:72-73
RunProcessNoContent(j) ==
    /\ j \in DOMAIN tasks
    /\ tasks[j].pc = "process"
    /\ DocChunks[tasks[j].doc] = <<>>
    /\ tasks' = [tasks EXCEPT ![j].pc = "except", ![j].exc = ErrNoContent]
    /\ UNCHANGED <<books, chunks, messages, jobs, staged, queries,
                   nextBook, deleted, ckVars, dcVars>>

\* PdfReader, the embedding call or the insert raises; the insert is rolled back
RunProcessError(j) ==
    /\ j \in DOMAIN tasks
    /\ tasks[j].pc = "process"
    /\ tasks' = [tasks EXCEPT ![j].pc = "except", ![j].exc = ErrPipeline]
    /\ UNCHANGED <<books, chunks, messages, jobs, staged, queries,
                   nextBook, deleted, ckVars, dcVars>>

\* finally: os.remove(pdf_path), api.py:96-99.  The temp file is private to the
\* task, so the removal is taken together with the task's last update_job.
RemoveStaged(j) == staged' = staged \ {j}

\* database.update_job(job_id, status="done", book_id=book_id), then finally
RunDone(j) ==
    /\ j \in DOMAIN tasks
    /\ tasks[j].pc = "done"
    /\ jobs' = update_job(jobs, j, "done", tasks[j].book_id, NoError)
    /\ RemoveStaged(j)
    /\ tasks' = [tasks EXCEPT ![j].pc = "finished"]
    /\ UNCHANGED <<books, chunks, messages, queries, nextBook, deleted, ckVars, dcVars>>

\* update_job(status="done") raises: the except clause runs although every
\* chunk is stored
RunDoneError(j) ==
    /\ j \in DOMAIN tasks
    /\ tasks[j].pc = "done"
    /\ tasks' = [tasks EXCEPT ![j].pc = "except", ![j].exc = ErrTracker]
    /\ UNCHANGED <<books, chunks, messages, jobs, staged, queries,
                   nextBook, deleted, ckVars, dcVars>>

\* except Exception as e: database.update_job(job_id, status="failed", error=str(e)),
\* then finally
RunExcept(j) ==
    /\ j \in DOMAIN tasks
    /\ tasks[j].pc = "except"
    /\ jobs' = update_job(jobs, j, "failed", NULL, tasks[j].exc)
    /\ RemoveStaged(j)
    /\ tasks' = [tasks EXCEPT ![j].pc = "finished"]
    /\ UNCHANGED <<books, chunks, messages, queries, nextBook, deleted, ckVars, dcVars>>

\* update_job raises inside the except clause: the finally clause runs and the
\* exception leaves the task; the job row keeps the status it had
RunExceptError(j) ==
    /\ j \in DOMAIN tasks
    /\ tasks[j].pc = "except"
    /\ RemoveStaged(j)
    /\ tasks' = [tasks EXCEPT ![j].pc = "finished"]
    /\ UNCHANGED <<books, chunks, messages, jobs, queries, nextBook, deleted, ckVars, dcVars>>

----------------------------------------------------------------------------
(* GET /v1/jobs/{job_id}, api.py:153-163, and GET /v1/books, api.py:107-110 *)

GetJobStatus(job_id) ==
    /\ job_id \in DOMAIN jobs
    /\ UNCHANGED <<books, chunks, messages, jobs, tasks, staged, queries,
                   nextBook, deleted, ckVars, dcVars>>

GetJobStatusNotFound(job_id) ==
    /\ job_id \notin DOMAIN jobs
    /\ UNCHANGED <<books, chunks, messages, jobs, tasks, staged, queries,
                   nextBook, deleted, ckVars, dcVars>>

ListBooks ==
    /\ UNCHANGED <<books, chunks, messages, jobs, tasks, staged, queries,
                   nextBook, deleted, ckVars, dcVars>>

----------------------------------------------------------------------------
(* DELETE /v1/books/{book_id}, api.py:166-175 and database.py:62-88 *)

\* a variant of delete_book that commits before the messages are deleted
delete_book_partial(book_id) ==
    /\ chunks' = {c \in chunks : c.book_id # book_id}
    /\ messages' = messages
    /\ books' = books \ BookRow(book_id)

\* the three DELETE statements and the commit
delete_book(book_id) ==
    /\ chunks' = {c \in chunks : c.book_id # book_id}
    /\ messages' = SelectSeq(messages, LAMBDA m : m.book_id # book_id)
    /\ books' = books \ BookRow(book_id)

DeleteBook(book_id) ==
    /\ BookRow(book_id) # {}
    /\ delete_book(book_id)
    /\ deleted' = deleted \cup {book_id}
    /\ UNCHANGED <<jobs, tasks, staged, queries, nextBook, ckVars, dcVars>>

\* if not row: return False  ->  404
DeleteBookNotFound(book_id) ==
    /\ BookRow(book_id) = {}
    /\ UNCHANGED <<books, chunks, messages, jobs, tasks, staged, queries,
                   nextBook, deleted, ckVars, dcVars>>

\* a statement raises: db.rollback(); raise  ->  500
DeleteBookError(book_id) ==
    /\ BookRow(book_id) # {}
    /\ UNCHANGED <<books, chunks, messages, jobs, tasks, staged, queries,
                   nextBook, deleted, ckVars, dcVars>>

----------------------------------------------------------------------------
(* POST /v1/query, api.py:178-223: one store call per step *)

\* a variant of QueryNotFound that logs the question before it answers 404
QueryNotFoundLogged(book_id) ==
    /\ BookRow(book_id) = {}
    /\ messages' = Append(messages, MessageRow("u1", book_id, "user", <<>>, 0))
    /\ UNCHANGED <<books, chunks, jobs, tasks, staged, queries,
                   nextBook, deleted, ckVars, dcVars>>

\* the book lookup finds no row: 404
QueryNotFound(book_id) ==
    /\ BookRow(book_id) = {}
    /\ UNCHANGED <<books, chunks, messages, jobs, tasks, staged, queries,
                   nextBook, deleted, ckVars, dcVars>>

\* the book exists; the history is read
QueryLookup(user_id, book_id, query, chapter_limit) ==
    /\ Len(queries) < MaxQueries
    /\ BookRow(book_id) # {}
    /\ queries' = Append(queries,
          [user_id |-> user_id, book_id |-> book_id, query |-> query,
           chapter_limit |-> chapter_limit, pc |-> "search",
           raw_results |-> <<>>, answer |-> <<>>, generated |-> FALSE,
           logged |-> <<>>, swallowed |-> 0])
    /\ UNCHANGED <<books, chunks, messages, jobs, tasks, staged,
                   nextBook, deleted, ckVars, dcVars>>

\* sources = [source for source, _, _ in raw_results]
Sources(raw_results) == [k \in 1..Len(raw_results) |-> raw_results[k].source]

\* the body of the 200 response of query i: {"answer": ..., "sources": ...},
\* api.py:209 and api.py:223
QueryResponse(i) ==
    [answer |-> queries[i].answer, sources |-> Sources(queries[i].raw_results)]

\* a variant of QueryResults that passes no chapter_limit to the search
QueryResultsUnlimited(i) ==
    semantic_search(chunks, Embed(queries[i].query), queries[i].book_id,
                    NoLimit, QueryTopK)

\* the search the handler runs, api.py:198-203
QueryResults(i) ==
    semantic_search(chunks, Embed(queries[i].query), queries[i].book_id,
                    Limit(queries[i].chapter_limit), QueryTopK)

\* if not chunks_text: return the fallback answer, api.py:208-209
QueryFallback(i) ==
    /\ i \in DOMAIN queries
    /\ queries[i].pc = "search"
    /\ <<>> \in QueryResults(i)
    /\ queries' = [queries EXCEPT ![i].pc = "returned", ![i].answer = FallbackAnswer]
    /\ UNCHANGED <<books, chunks, messages, jobs, tasks, staged, nextBook, deleted, ckVars, dcVars>>

\* chunks were found: generate_answer returns a completion or an error string
QueryAnswer(i) ==
    /\ i \in DOMAIN queries
    /\ queries[i].pc = "search"
    /\ \E r \in QueryResults(i), a \in Answers :
          /\ r # <<>>
          /\ queries' = [queries EXCEPT ![i].pc = "log_user",
                                        ![i].raw_results = r, ![i].answer = a,
                                        ![i].generated = TRUE]
    /\ UNCHANGED <<books, chunks, messages, jobs, tasks, staged,
                   nextBook, deleted, ckVars, dcVars>>

\* a variant of LogOrder that logs the answer before the question
LogOrderSwapped == <<"bot", "user">>

\* the order of the two log_message calls, api.py:220-221
LogOrder == <<"user", "bot">>
\* after the second call the handler returns {"answer": answer, "sources": sources}
NextLogPc(pc) == IF pc = "log_user" THEN "log_bot" ELSE "returned"

\* the row a log_message call of query i inserts
LogRow(i, role) ==
    MessageRow(queries[i].user_id, queries[i].book_id, role,
               IF role = "user" THEN queries[i].query ELSE queries[i].answer,
               queries[i].chapter_limit)

\* database.log_message(...): the insert commits
QueryLog(i) ==
    /\ i \in DOMAIN queries
    /\ queries[i].pc \in {"log_user", "log_bot"}
    /\ LET role == IF queries[i].pc = "log_user" THEN LogOrder[1] ELSE LogOrder[2]
       IN  /\ messages' = Append(messages, LogRow(i, role))
           /\ queries' = [queries EXCEPT ![i].pc = NextLogPc(@),
                                         ![i].logged = Append(@, role)]
    /\ UNCHANGED <<books, chunks, jobs, tasks, staged, nextBook, deleted, ckVars, dcVars>>

\* database.log_message(...): the insert raises, log_message rolls back and returns
QueryLogSwallowed(i) ==
    /\ i \in DOMAIN queries
    /\ queries[i].pc \in {"log_user", "log_bot"}
    /\ queries' = [queries EXCEPT ![i].pc = NextLogPc(@), ![i].swallowed = @ + 1]
    /\ UNCHANGED <<books, chunks, messages, jobs, tasks, staged,
                   nextBook, deleted, ckVars, dcVars>>

----------------------------------------------------------------------------
(* Specifications *)

Next ==
    \/ \E f \in FileNames, d \in DocIds : IngestAccept(f, d) /\ UNCHANGED apiVars
    \/ \E f \in FileNames : IngestConflict(f) /\ UNCHANGED apiVars
    \/ \E j \in JobIds :
          \/ RunStart(j) /\ UNCHANGED apiVars
          \/ RunRegister(j) /\ UNCHANGED apiVars
          \/ RunRegisterError(j) /\ UNCHANGED apiVars
          \/ RunAttach(j) /\ UNCHANGED apiVars
          \/ RunProcess(j) /\ UNCHANGED apiVars
          \/ RunProcessNoContent(j) /\ UNCHANGED apiVars
          \/ RunProcessError(j) /\ UNCHANGED apiVars
          \/ RunDone(j) /\ UNCHANGED apiVars
          \/ RunExcept(j) /\ UNCHANGED apiVars
          \/ RunStartError(j) /\ UNCHANGED apiVars
          \/ RunAttachError(j) /\ UNCHANGED apiVars
          \/ RunDoneError(j) /\ UNCHANGED apiVars
          \/ RunExceptError(j) /\ UNCHANGED apiVars
    \/ \E j \in JobIds :
          \/ GetJobStatus(j) /\ UNCHANGED apiVars
          \/ GetJobStatusNotFound(j) /\ UNCHANGED apiVars
    \/ ListBooks /\ UNCHANGED apiVars
    \/ \E b \in BookIds :
          \/ DeleteBook(b) /\ UNCHANGED apiVars
          \/ DeleteBookNotFound(b) /\ UNCHANGED apiVars
          \/ DeleteBookError(b) /\ UNCHANGED apiVars
    \/ \E b \in BookIds : QueryNotFound(b) /\ UNCHANGED apiVars
    \/ \E u \in Users, b \in BookIds, q \in QueryTexts, c \in 0..MaxChapter :
          QueryLookup(u, b, q, c) /\ UNCHANGED apiVars
    \/ \E i \in QueryIds :
          \/ QueryFallback(i) /\ UNCHANGED apiVars
          \/ QueryAnswer(i) /\ UNCHANGED apiVars
          \/ QueryLog(i) /\ UNCHANGED apiVars
          \/ QueryLogSwallowed(i) /\ UNCHANGED apiVars

Spec == Init /\ [][Next]_vars

CkNext == CkSplit \/ CkIterate \/ CkReturn

InitChunk == SysInit /\ CkInit /\ DcIdle /\ ApiIdle

SpecChunk == InitChunk /\ [][CkNext]_vars

----------------------------------------------------------------------------
(* SpecApi: the protected endpoints, api.py:107-223, each behind            *)
(* Depends(verify_api_key)                                                  *)

\* verify_api_key raises: the handler does not run
ApiReject(endpoint, x) ==
    /\ verify_api_key(x) # 0
    /\ resp' = Response(endpoint, x, NULL, verify_api_key(x))
    /\ UNCHANGED <<apiKey, sysVars, ckVars, dcVars>>

ApiListBooks(x) ==
    /\ verify_api_key(x) = 0
    /\ ListBooks
    /\ resp' = Response("books", x, NULL, 200)
    /\ UNCHANGED apiKey

\* return {"message": ..., "job_id": job_id, "status": "pending"}
ApiIngest(x, file, d) ==
    /\ verify_api_key(x) = 0
    /\ Len(jobs) < MaxApiJobs
    /\ IngestAccept(file, d)
    /\ resp' = [Response("ingest", x, NULL, 200) EXCEPT
                  !.job_id = Len(jobs) + 1, !.status = "pending"]
    /\ UNCHANGED apiKey

ApiIngestConflict(x, file) ==
    /\ verify_api_key(x) = 0
    /\ IngestConflict(file)
    /\ resp' = Response("ingest", x, NULL, 409)
    /\ UNCHANGED apiKey

\* return job
ApiGetJob(x, job_id) ==
    /\ verify_api_key(x) = 0
    /\ GetJobStatus(job_id)
    /\ resp' = [Response("jobs", x, job_id, 200) EXCEPT
                  !.job_id = job_id, !.status = jobs[job_id].status]
    /\ UNCHANGED apiKey

ApiGetJobNotFound(x, job_id) ==
    /\ verify_api_key(x) = 0
    /\ GetJobStatusNotFound(job_id)
    /\ resp' = Response("jobs", x, job_id, 404)
    /\ UNCHANGED apiKey

ApiDelete(x, book_id) ==
    /\ verify_api_key(x) = 0
    /\ DeleteBook(book_id)
    /\ resp' = Response("delete", x, book_id, 200)
    /\ UNCHANGED apiKey

ApiDeleteNotFound(x, book_id) ==
    /\ verify_api_key(x) = 0
    /\ DeleteBookNotFound(book_id)
    /\ resp' = Response("delete", x, book_id, 404)
    /\ UNCHANGED apiKey

ApiDeleteError(x, book_id) ==
    /\ verify_api_key(x) = 0
    /\ DeleteBookError(book_id)
    /\ resp' = Response("delete", x, book_id, 500)
    /\ UNCHANGED apiKey

ApiQueryNotFound(x, book_id) ==
    /\ verify_api_key(x) = 0
    /\ QueryNotFound(book_id)
    /\ resp' = Response("query", x, book_id, 404)
    /\ UNCHANGED apiKey

\* the request is let in; its response is sent when the handler returns
ApiQueryLookup(x, user_id, book_id, query, chapter_limit) ==
    /\ verify_api_key(x) = 0
    /\ QueryLookup(user_id, book_id, query, chapter_limit)
    /\ UNCHANGED apiVars

\* a step of the query handler; when it is the return, the response
QueryReturns(i) ==
    /\ resp' = IF queries'[i].pc = "returned"
               THEN [Response("query", apiKey, queries[i].book_id, 200) EXCEPT
                        !.answer = queries'[i].answer,
                        !.sources = Sources(queries'[i].raw_results)]
               ELSE resp
    /\ UNCHANGED apiKey

ApiNext ==
    \/ \E e \in Endpoints, x \in HeaderKeys : ApiReject(e, x)
    \/ \E x \in HeaderKeys : ApiListBooks(x)
    \/ \E x \in HeaderKeys, f \in FileNames, d \in DocIds : ApiIngest(x, f, d)
    \/ \E x \in HeaderKeys, f \in FileNames : ApiIngestConflict(x, f)
    \/ \E x \in HeaderKeys, j \in JobIds : ApiGetJob(x, j)
    \/ \E x \in HeaderKeys, j \in JobIds : ApiGetJobNotFound(x, j)
    \/ \E x \in HeaderKeys, b \in BookIds : ApiDelete(x, b)
    \/ \E x \in HeaderKeys, b \in BookIds : ApiDeleteNotFound(x, b)
    \/ \E x \in HeaderKeys, b \in BookIds : ApiDeleteError(x, b)
    \/ \E x \in HeaderKeys, b \in BookIds : ApiQueryNotFound(x, b)
    \/ \E x \in HeaderKeys, u \in Users, b \in BookIds, q \in QueryTexts,
          c \in 0..MaxChapter : ApiQueryLookup(x, u, b, q, c)
    \/ \E i \in QueryIds :
          \/ QueryFallback(i) /\ QueryReturns(i)
          \/ QueryAnswer(i) /\ QueryReturns(i)
          \/ QueryLog(i) /\ QueryReturns(i)
          \/ QueryLogSwallowed(i) /\ QueryReturns(i)
    \/ \E j \in JobIds :
          \/ RunStart(j) /\ UNCHANGED apiVars
          \/ RunRegister(j) /\ UNCHANGED apiVars
          \/ RunRegisterError(j) /\ UNCHANGED apiVars
          \/ RunAttach(j) /\ UNCHANGED apiVars
          \/ RunProcess(j) /\ UNCHANGED apiVars
          \/ RunProcessNoContent(j) /\ UNCHANGED apiVars
          \/ RunProcessError(j) /\ UNCHANGED apiVars
          \/ RunDone(j) /\ UNCHANGED apiVars
          \/ RunExcept(j) /\ UNCHANGED apiVars
          \/ RunStartError(j) /\ UNCHANGED apiVars
          \/ RunAttachError(j) /\ UNCHANGED apiVars
          \/ RunDoneError(j) /\ UNCHANGED apiVars
          \/ RunExceptError(j) /\ UNCHANGED apiVars

\* the key is configured or not; no request has been answered
InitApi ==
    /\ SysInit /\ CkIdle /\ DcIdle
    /\ apiKey \in ConfiguredKeys
    /\ resp = NoResponse

SpecApi == InitApi /\ [][ApiNext]_vars

DcNext ==
    \/ DcSplit \/ DcSkipChapter \/ DcChunkChapter \/ DcLoopEnd
    \/ DcWhole \/ DcRaise \/ DcUpsert

InitDoc == SysInit /\ CkIdle /\ DcInit /\ ApiIdle

SpecDoc == InitDoc /\ [][DcNext]_vars

----------------------------------------------------------------------------
(* Claims about smart_chunking, checked under SpecChunk *)

\* what smart_chunking has returned once the loop is over
ReturnedChunks == ChunkStrings(ckSents, ckChunks)

\* C7: every returned chunk string is at most chunk_size characters long, unless
\* the chunk is exactly one sentence that is itself longer than chunk_size.
C7_ChunkSizeBound ==
    ckPc = "done" =>
        \A k \in 1..Len(ckChunks) :
            \/ Len(ReturnedChunks[k]) <= ckSize
            \/ /\ Len(ckChunks[k]) = 1
               /\ Len(ckSents[ckChunks[k][1]]) > ckSize

\* the sentences of a chunk that are not repeated from its predecessor: the
\* leading sentences that also lie in the predecessor are dropped
RECURSIVE DropRepeated(_, _)
DropRepeated(chunk, prev) ==
    IF chunk # <<>> /\ Head(chunk) \in Range(prev)
    THEN DropRepeated(Tail(chunk), prev) ELSE chunk
Deduplicated(chs) ==
    Flatten([k \in 1..Len(chs) |->
                IF k = 1 THEN chs[k] ELSE DropRepeated(chs[k], chs[k - 1])])
NonEmptySentences(sents) == SelectSeq(sents, LAMBDA x : x # <<>>)

\* C8: the chunks in order, each without the sentences it repeats from the tail
\* of its predecessor, are exactly the non-empty sentences of the input, each
\* once and in the input's order.
C8_SentencePreservation ==
    ckPc = "done" =>
        TextOf(ckSents, Deduplicated(ckChunks)) = NonEmptySentences(ckSents)

\* C8 witness: a finished run with at least two chunks whose second chunk starts
\* with a sentence repeated from the first
C8_Witness ==
    /\ ckPc = "done"
    /\ Len(ckChunks) >= 2
    /\ ckChunks[2] # <<>> /\ ckChunks[1] # <<>>
    /\ Head(ckChunks[2]) \in Range(ckChunks[1])
    /\ Len(NonEmptySentences(ckSents)) >= 3

----------------------------------------------------------------------------
(* Claims about the service, checked under Spec *)

\* the arguments semantic_search is tried with in every reachable store
SearchVectors == 0..(NVec - 1)
SearchLimits  == {NoLimit} \cup {Limit(c) : c \in 0..(MaxChapter + 1)}
SearchTopK    == 0..QueryTopK
StoredBooks(store) == {c.book_id : c \in store}

\* no search of the store with a ceiling returns a chunk above the ceiling
NoSpoiler(store) ==
    \A b \in StoredBooks(store), c \in 0..(MaxChapter + 1), k \in SearchTopK,
       q \in SearchVectors :
       \A r \in semantic_search(store, q, b, Limit(c), k) :
          \A n \in DOMAIN r : r[n].chapter_num <= c

\* C1: with a chapter ceiling C, semantic_search returns no chunk of a chapter
\* above C, in every store ingestions and deletions can produce (the empty
\* store, and the store after every step that changes it); neither do the
\* results and sources of a POST /v1/query.
C1_SpoilerShield ==
    /\ NoSpoiler(chunks)
    /\ [][chunks' # chunks => NoSpoiler(chunks')]_vars
    /\ [](\A i \in DOMAIN queries :
            \A n \in DOMAIN queries[i].raw_results :
               /\ queries[i].raw_results[n].chapter_num <= queries[i].chapter_limit
               /\ Sources(queries[i].raw_results)[n][2] <= queries[i].chapter_limit)

\* C1 witness: a query got results although the chunk nearest to it, in the same
\* book, lies in a chapter above its ceiling
C1_Witness ==
    \E i \in DOMAIN queries :
       /\ queries[i].raw_results # <<>>
       /\ \E x \in chunks :
             /\ x.book_id = queries[i].book_id
             /\ x.chapter_num > queries[i].chapter_limit
             /\ \A y \in chunks :
                   (y.book_id = x.book_id /\ y # x) =>
                      Distance(x.embedding, Embed(queries[i].query))
                         < Distance(y.embedding, Embed(queries[i].query))

\* C2: at most one book row per normalised filename, and a second job for a
\* filename exists only if the book of the earlier job has been deleted.
C2_DuplicateProtection ==
    /\ \A b1, b2 \in books : b1.filename = b2.filename => b1.id = b2.id
    /\ \A j1, j2 \in DOMAIN jobs :
          (j1 < j2 /\ jobs[j1].filename = jobs[j2].filename)
             => tasks[j1].book_id \in deleted

\* C3: once delete_book(b) has succeeded, no chunk and no message of b exists
\* and a search for b finds nothing, whatever was in flight.
C3_DeletionCascade ==
    \A b \in deleted :
       /\ \A c \in chunks : c.book_id # b
       /\ \A n \in DOMAIN messages : messages[n].book_id # b
       /\ \A q \in SearchVectors :
             semantic_search(chunks, q, b, NoLimit, QueryTopK) = {<<>>}

C5_DoneAfterStored ==
    \A j \in DOMAIN jobs :
       jobs[j].status = "done" =>
          /\ jobs[j].book_id # NULL
          /\ jobs[j].book_id = tasks[j].book_id
          /\ jobs[j].book_id \in 1..nextBook
          /\ DocChunks[tasks[j].doc] # <<>>
          /\ \A k \in 1..Len(DocChunks[tasks[j].doc]) :
                \E row \in tasks[j].stored :
                   /\ row.book_id = jobs[j].book_id
                   /\ row.chunk_text = <<tasks[j].doc, k>>
                   /\ row.chapter_num = DocChunks[tasks[j].doc][k].chapter_num

\* C5 witness: a done job whose document has several chunks
C5_Witness ==
    \E j \in DOMAIN jobs :
       /\ jobs[j].status = "done"
       /\ Len(DocChunks[tasks[j].doc]) >= 3
       /\ Cardinality(tasks[j].stored) >= 3

\* C6: a job whose document yields no chunk ends failed with the no-content
\* error, stores no chunk, and leaves no book row behind.
C6_NoContentLeavesNothing ==
    \A j \in DOMAIN jobs :
       (tasks[j].pc = "finished" /\ tasks[j].exc = ErrNoContent) =>
          /\ jobs[j].status = "failed"
          /\ jobs[j].error = ErrNoContent
          /\ \A c \in chunks : c.book_id # tasks[j].book_id
          /\ (BookRow(tasks[j].book_id) # {} =>
                \E c \in chunks : c.book_id = tasks[j].book_id)

\* the chunks semantic_search may choose from: those of the book, at or below
\* the ceiling when one is given
EligibleChunks(store, b, lim) ==
    {c \in store : c.book_id = b /\ (lim = NoLimit \/ c.chapter_num <= lim[1])}

\* every search of the store returns the top_k most similar eligible chunks
TopKEligible(store) ==
    \A b \in StoredBooks(store) \cup {NULL}, lim \in SearchLimits, k \in SearchTopK,
       q \in SearchVectors :
       \A r \in semantic_search(store, q, b, lim, k) :
          LET el == EligibleChunks(store, b, lim)
              got == {c \in el : \E n \in DOMAIN r :
                         /\ r[n].text = c.chunk_text /\ r[n].book_id = c.book_id
                         /\ r[n].chapter_num = c.chapter_num
                         /\ r[n].score = 1 - Distance(c.embedding, q)}
          IN  /\ Len(r) = Min(k, Cardinality(el))
              /\ Cardinality(got) = Len(r)
              /\ \A n \in DOMAIN r : r[n].book_id = b
              /\ \A n, m \in DOMAIN r : n < m => r[n].score >= r[m].score
              /\ \A c \in el \ got, n \in DOMAIN r :
                    1 - Distance(c.embedding, q) <= r[n].score
              /\ (el = {} => r = <<>>)

\* C9: a result holds min(top_k, eligible) distinct eligible chunks of the book,
\* in non-increasing similarity, and no eligible chunk left out is more similar
\* than one returned; it is empty when nothing is eligible.  Stated of the
\* empty store and of the store after every step that changes it.
C9_TopKEligible ==
    /\ TopKEligible(chunks)
    /\ [][chunks' # chunks => TopKEligible(chunks')]_vars

\* C9 witness: a query got two results of different similarity from a book with
\* a third chunk it may not see, while another book has chunks too
C9_Witness ==
    \E i \in DOMAIN queries :
       /\ Len(queries[i].raw_results) = 2
       /\ queries[i].raw_results[1].score > queries[i].raw_results[2].score
       /\ Cardinality({c \in chunks : c.book_id = queries[i].book_id}) = 3
       /\ \E c \in chunks : c.book_id # queries[i].book_id

\* C10 as stated: every query that has returned successfully appended exactly
\* two messages, the user's question and then the answer.
C10_TwoMessagesPerQuery ==
    \A i \in DOMAIN queries :
       queries[i].pc = "returned" => queries[i].logged = <<"user", "bot">>

\* C10 amended: a query answered from retrieved chunks calls log_message twice
\* once the answer is computed, for the question and then for the answer, and
\* each call appends its row unless the insert fails; a query answered with
\* the fallback appends nothing; only these calls append to messages.
C10_QueryLogging ==
    /\ [](\A i \in DOMAIN queries :
            queries[i].pc = "returned" =>
               IF queries[i].raw_results = <<>>
               THEN queries[i].logged = <<>> /\ queries[i].swallowed = 0
               ELSE /\ Len(queries[i].logged) + queries[i].swallowed = 2
                    /\ queries[i].logged \in
                          {<<>>, <<"user">>, <<"bot">>, <<"user", "bot">>})
    /\ [][ Len(messages') > Len(messages) =>
             \E i \in DOMAIN queries :
                /\ queries[i].pc \in {"log_user", "log_bot"}
                /\ queries[i].raw_results # <<>>
                /\ queries[i].answer \in Answers
                /\ messages' = Append(messages,
                      MessageRow(queries[i].user_id, queries[i].book_id,
                                 IF queries[i].pc = "log_user" THEN "user" ELSE "bot",
                                 IF queries[i].pc = "log_user" THEN queries[i].query
                                                               ELSE queries[i].answer,
                                 queries[i].chapter_limit))
      ]_vars

\* C10 witness: a query has returned a generated answer and both rows are in
\* messages, the question before the answer
C10_Witness ==
    \E i \in DOMAIN queries :
       /\ queries[i].pc = "returned"
       /\ queries[i].logged = <<"user", "bot">>
       /\ \E n, m \in DOMAIN messages :
             /\ n < m
             /\ messages[n].role = "user" /\ messages[n].content = queries[i].query
             /\ messages[m].role = "bot" /\ messages[m].content = queries[i].answer

----------------------------------------------------------------------------
(* Claims about the answers of POST /v1/query, checked under Spec *)

\* C11: a query for an existing book that finds no chunk of the book at or
\* below its chapter limit returns at once, with the fixed fallback string as
\* answer and no sources, and generate_answer is not called; every returned
\* query without results carries exactly that response.
C11_EmptyResultFallback ==
    /\ [](\A i \in DOMAIN queries :
            (queries[i].pc = "returned" /\ queries[i].raw_results = <<>>) =>
               /\ QueryResponse(i) =
                     [answer |-> <<"I couldn't find anything about that in the book up to this chapter.">>,
                      sources |-> <<>>]
               /\ ~queries[i].generated)
    /\ [][\A i \in DOMAIN queries :
            ( /\ queries[i].pc = "search"
              /\ queries'[i].pc # "search"
              /\ \A c \in chunks : c.book_id = queries[i].book_id =>
                                     c.chapter_num > queries[i].chapter_limit )
            => /\ queries'[i].pc = "returned"
               /\ queries'[i].raw_results = <<>>
               /\ ~queries'[i].generated
          ]_vars

\* C11 witness: a query has returned the fallback although its book has
\* chunks, all of them above the query's chapter limit
C11_Witness ==
    \E i \in DOMAIN queries :
       /\ queries[i].pc = "returned"
       /\ queries[i].raw_results = <<>>
       /\ \E c \in chunks : c.book_id = queries[i].book_id
       /\ \A c \in chunks : c.book_id = queries[i].book_id =>
                              c.chapter_num > queries[i].chapter_limit

\* C19: whatever happens inside generate_answer, the query goes on to log and
\* return: its answer is the completion or one of the two placeholder
\* strings, it keeps the sources retrieved, and neither changes afterwards.
C19_GeneratorFailureAnswered ==
    /\ [](\A i \in DOMAIN queries :
            queries[i].generated =>
               /\ queries[i].answer \in
                     {<<"completion">>, <<"Groq Error">>,
                      <<"Error: Missing GROQ_API_KEY in .env file.">>}
               /\ QueryResponse(i).sources # <<>>
               /\ queries[i].pc \in {"log_user", "log_bot", "returned"})
    /\ [][\A i \in DOMAIN queries :
            queries[i].generated =>
               /\ i \in DOMAIN queries'
               /\ QueryResponse(i)' = QueryResponse(i)
          ]_vars

\* C19 witness: a query whose completion call failed has returned the
\* placeholder together with two sources
C19_Witness ==
    \E i \in DOMAIN queries :
       /\ queries[i].pc = "returned"
       /\ queries[i].generated
       /\ QueryResponse(i).answer = <<"Groq Error">>
       /\ Len(QueryResponse(i).sources) = 2

----------------------------------------------------------------------------
(* Claims about the errors of the background task, checked under Spec *)

\* the job's task has left _run_ingest and the job row has a final status
JobSettled(j) == jobs[j].status \in {"done", "failed"}

\* C12: a task that ended after register_book or process_and_ingest_pdf raised
\* has left its job in status failed with a non-null error message, and a job
\* row has a non-null error only if its status is failed.
C12_WorkerErrorsRecorded ==
    /\ \A j \in DOMAIN tasks :
          ( /\ tasks[j].pc = "finished"
            /\ tasks[j].exc \in {ErrRegister, ErrPipeline, ErrNoContent} )
          => /\ jobs[j].status = "failed"
             /\ jobs[j].error # NoError
    /\ \A j \in DOMAIN jobs :
          jobs[j].error # NoError => jobs[j].status = "failed"

\* C13: a job whose background task has run to its end is done or failed;
\* nothing but its own task ever writes a job row, so a job that is not is
\* pending or processing for ever.
C13_FinishedTaskSettlesJob ==
    \A j \in DOMAIN tasks : tasks[j].pc = "finished" => JobSettled(j)

----------------------------------------------------------------------------
(* Claims about process_and_ingest_pdf, checked under SpecDoc *)

\* the headings of a document and the stripped text between a heading and
\* the next one
HeadingPositions(doc) == {h \in DOMAIN doc : doc[h].kind = "heading"}
SegmentAfter(doc, h) ==
    LET later == {g \in HeadingPositions(doc) : g > h}
        last  == IF later = {} THEN Len(doc)
                 ELSE (CHOOSE g \in later : \A m \in later : g <= m) - 1
    IN  Strip(Flatten([k \in 1..(last - h) |-> doc[h + k].text]))
LongEnough(doc, h) == Len(SegmentAfter(doc, h)) >= 500

\* for every heading in order: the chunks of its segment if the segment is
\* long enough, each paired with the heading's integer
RECURSIVE KeptFrom(_, _)
KeptFrom(doc, h) ==
    IF h > Len(doc) THEN <<>>
    ELSE IF h \in HeadingPositions(doc) /\ LongEnough(doc, h)
         THEN LET cs == smart_chunking(SegmentAfter(doc, h), 800, 2)
              IN  [k \in 1..Len(cs) |-> <<doc[h].num, cs[k]>>] \o KeptFrom(doc, h + 1)
         ELSE KeptFrom(doc, h + 1)
StoredTexts == [k \in 1..Len(dcParams) |-> dcParams[k].chunk_text]
StoredTags  == [k \in 1..Len(dcParams) |-> dcParams[k].chapter_num]

\* C14: for a document with at least one heading, the chunks stored are
\* exactly the chunks of the chapters whose stripped body has 500 characters
\* or more, in document order; a shorter chapter contributes none, and when
\* every chapter is shorter nothing is stored.
C14_ChapterDiscard ==
    HeadingPositions(dcDoc) # {} =>
       /\ dcPc = "stored" =>
             StoredTexts = [k \in 1..Len(KeptFrom(dcDoc, 1)) |-> KeptFrom(dcDoc, 1)[k][2]]
       /\ dcPc = "raised" =>
             /\ dcParams = <<>>
             /\ \A h \in HeadingPositions(dcDoc) : ~LongEnough(dcDoc, h)

\* C14 witness: chapter 1 is long enough and chapter 2, 499 characters once
\* stripped, is not: the two chunks of chapter 1 are stored and nothing else
C14_Witness ==
    /\ dcPc = "stored"
    /\ dcDoc = <<Heading(1), Body(Padded(<<300, 299, 301>>)),
                 Heading(2), Body(Padded(<<499>>))>>
    /\ Len(dcParams) = 2
    /\ StoredTags = <<1, 1>>

\* s occurs in t as a run of consecutive characters
IsInfix(s, t) ==
    \E o \in 0..(Len(t) - Len(s)) : SubSeq(t, o + 1, o + Len(s)) = s
\* the sentences of the text of a document
SentencesOf(doc) ==
    {p \in Range(StrippedPieces(FullText(doc))) : p # <<>>}

\* C15: for a document without heading, every stored chunk has chapter number
\* 0 and every sentence of the text occurs in a stored chunk; nothing is
\* stored only when the text has no sentence.
C15_ChapterFallback ==
    HeadingPositions(dcDoc) = {} =>
       /\ dcPc = "stored" =>
             /\ \A k \in DOMAIN dcParams : dcParams[k].chapter_num = 0
             /\ \A p \in SentencesOf(dcDoc) :
                   \E k \in DOMAIN dcParams : IsInfix(p, dcParams[k].chunk_text)
       /\ dcPc = "raised" => SentencesOf(dcDoc) = {}

\* C15 witness: a document of two pages without heading is stored as five
\* overlapping chunks of chapter 0
C15_Witness ==
    /\ dcPc = "stored"
    /\ dcDoc = <<Body(Padded(<<300, 299, 301>>)), Body(TextOfLens(<<300, 299, 301>>))>>
    /\ StoredTags = <<0, 0, 0, 0, 0>>

\* C16: all_chunks and all_chapters have the same length after every step;
\* each pass of the loop appends the chunks of its chapter and as many copies
\* of the integer of its heading; the rows handed to storage pair the two
\* lists position by position, so that every stored chunk carries the integer
\* of the heading of the segment it was cut from; and the rows do not change
\* once they are stored.
C16_ChapterTagging ==
    /\ [](Len(dcAllChunks) = Len(dcAllChapters))
    /\ [](dcPc = "stored" =>
            /\ Len(dcParams) = Len(dcAllChunks)
            /\ \A k \in DOMAIN dcParams :
                  /\ dcParams[k].chunk_text = dcAllChunks[k]
                  /\ dcParams[k].chapter_num = dcAllChapters[k]
            /\ HeadingPositions(dcDoc) # {} =>
                  [k \in DOMAIN dcParams |->
                      <<dcParams[k].chapter_num, dcParams[k].chunk_text>>]
                  = KeptFrom(dcDoc, 1)
            /\ dcParams = AllChunks(dcDoc))
    /\ [][ /\ (dcPc = "loop" /\ dcAllChunks' # dcAllChunks) =>
               /\ SubSeq(dcAllChunks', 1, Len(dcAllChunks)) = dcAllChunks
               /\ SubSeq(dcAllChapters', 1, Len(dcAllChapters)) = dcAllChapters
               /\ \A k \in (Len(dcAllChapters) + 1)..Len(dcAllChapters') :
                     dcAllChapters'[k] = dcRaw[dcI].num
               /\ SubSeq(dcAllChunks', Len(dcAllChunks) + 1, Len(dcAllChunks'))
                     = smart_chunking(Strip(dcRaw[dcI + 1].text), 800, 2)
           /\ dcPc = "stored" => dcParams' = dcParams
         ]_vars

\* C16 witness: chapter 2 comes first and fills two chunks, chapter 1 one:
\* the rows stored carry 2, 2, 1
C16_Witness ==
    /\ dcPc = "stored"
    /\ dcDoc = <<Heading(2), Body(Padded(<<300, 299, 301>>)),
                 Heading(1), Body(Padded(<<500>>))>>
    /\ StoredTags = <<2, 2, 1>>
    /\ Len(dcAllChunks) = 3 /\ Len(dcAllChapters) = 3

----------------------------------------------------------------------------
(* Claims about the HTTP boundary, checked under SpecApi *)

\* a step that sends a response
Responds == resp' # resp

C18_UnknownIdentifiers ==
    /\ [][ (Responds /\ apiKey # "(none)" /\ resp'.key = apiKey) =>
              /\ (resp'.endpoint = "jobs" /\ resp'.id \notin DOMAIN jobs)
                    => resp'.code = 404
              /\ ( /\ resp'.endpoint \in {"delete", "query"}
                   /\ queries' = queries
                   /\ \A b \in books : b.id # resp'.id )
                    => resp'.code = 404
         ]_vars
    /\ [][ (Responds /\ resp'.code = 404) =>
              UNCHANGED <<books, chunks, messages, jobs, tasks, staged, queries>>
         ]_vars

\* C18 witness: a query for an unknown book id has been answered 404 while
\* another book, with chunks and a logged conversation, is stored
C18_Witness ==
    /\ resp.endpoint = "query" /\ resp.code = 404
    /\ books # {} /\ chunks # {} /\ messages # <<>>
    /\ \A b \in books : b.id # resp.id

\* C20: with a key configured, a response to a request whose X-API-Key header
\* is missing or differs from it has status 401, and the step that sends it
\* changes no table, task, staged file or query; 401 is sent for no other
\* request.
C20_ApiKeyRequired ==
    /\ [][ (Responds /\ apiKey # "(none)" /\ resp'.key # apiKey) =>
              /\ resp'.code = 401
              /\ UNCHANGED sysVars
         ]_vars
    /\ [](resp.code = 401 => resp.key # apiKey)

\* C20 witness: an ingest request without header has been answered 401 after
\* a job was accepted and finished
C20_Witness ==
    /\ resp.endpoint = "ingest" /\ resp.code = 401 /\ resp.key = "(none)"
    /\ jobs # <<>> /\ books # {} /\ chunks # {}

----------------------------------------------------------------------------
(* Further claims about smart_chunking, checked under SpecChunk *)

\* C21: every chunk smart_chunking returns holds at least one sentence, so no
\* returned chunk string is empty.
C21_NoEmptyChunk ==
    ckPc = "done" =>
        \A k \in 1..Len(ckChunks) :
            /\ ckChunks[k] # <<>>
            /\ ReturnedChunks[k] # <<>>

\* the last n sentences of a chunk, and their total length
LastOf(chunk, n) == SubSeq(chunk, Len(chunk) - n + 1, Len(chunk))
\* the number of leading sentences of a chunk that lie in its predecessor
SharedLead(chunk, prev) == Len(chunk) - Len(DropRepeated(chunk, prev))

\* C22: a chunk after the first starts with n <= overlap_sentences sentences
\* that are the last n sentences of the chunk before it, followed by at least
\* one sentence and only by sentences that are not in the chunk before it; n
\* is the largest number, up to overlap_sentences, of trailing sentences that
\* fit into chunk_size together with the first new sentence.
C22_ChunkOverlap ==
    ckPc = "done" =>
        \A k \in 2..Len(ckChunks) :
            LET prev == ckChunks[k - 1]
                cur  == ckChunks[k]
                n    == SharedLead(cur, prev)
            IN  /\ n <= ckOverlap
                /\ n <= Len(prev)
                /\ SubSeq(cur, 1, n) = LastOf(prev, n)
                /\ n < Len(cur)
                /\ \A m \in (n + 1)..Len(cur) : cur[m] \notin Range(prev)
                /\ n > 0 => current_len(ckSents, LastOf(prev, n))
                               + Len(ckSents[cur[n + 1]]) <= ckSize
                /\ \A m \in (n + 1)..Min(ckOverlap, Len(prev)) :
                      current_len(ckSents, LastOf(prev, m))
                        + Len(ckSents[cur[n + 1]]) > ckSize
                /\ ckOverlap = 0 => Range(cur) \cap Range(prev) = {}

\* C22 witness: with overlap_sentences = 2 the second chunk repeats only the
\* last sentence of the first, because two would not fit with the new one
C22_Witness ==
    /\ ckPc = "done"
    /\ ckOverlap = 2
    /\ Len(ckChunks) >= 2
    /\ Len(ckChunks[1]) >= 2
    /\ SharedLead(ckChunks[2], ckChunks[1]) = 1
    /\ Len(ckChunks[2]) >= 2

----------------------------------------------------------------------------
(* Further claims about the service *)

MessagesOf(msgs, b) == SelectSeq(msgs, LAMBDA m : m.book_id = b)
ChunksOf(store, b) == {c \in store : c.book_id = b}

\* C23: in every step, if a chunk or a message of a book is removed then the
\* book row is removed in the same step, and if the book row is removed then
\* no chunk and no message of the book is left; a DELETE answered 200 has
\* removed the row; a DELETE answered 500 has changed neither books nor
\* chunks nor messages.
C23_DeleteAtomic ==
    /\ [][ \A b \in BookIds :
              LET rowGone   == BookRow(b) # {} /\ (\A r \in books' : r.id # b)
                  chunkGone == ChunksOf(chunks, b) \ ChunksOf(chunks', b) # {}
                  msgGone   == Len(MessagesOf(messages', b)) < Len(MessagesOf(messages, b))
              IN  /\ (chunkGone \/ msgGone) => rowGone
                  /\ rowGone => /\ ChunksOf(chunks', b) = {}
                                /\ MessagesOf(messages', b) = <<>>
         ]_vars
    /\ [][ (Responds /\ resp'.endpoint = "delete" /\ resp'.code = 200) =>
              /\ BookRow(resp'.id) # {}
              /\ \A r \in books' : r.id # resp'.id
         ]_vars
    /\ [][ (Responds /\ resp'.endpoint = "delete" /\ resp'.code = 500) =>
              UNCHANGED <<books, chunks, messages>>
         ]_vars

\* C23 witness: a DELETE has been answered 200 for a book that had chunks
\* stored and a conversation logged; none of them is left
C23_Witness ==
    /\ resp.endpoint = "delete" /\ resp.code = 200
    /\ resp.id \in deleted
    /\ \E j \in DOMAIN tasks : tasks[j].book_id = resp.id /\ tasks[j].stored # {}
    /\ \E i \in DOMAIN queries :
          queries[i].book_id = resp.id /\ Len(queries[i].logged) = 2
    /\ books = {} /\ chunks = {} /\ messages = <<>>

\* the task of job j has registered its book and is past the update_job call
\* that attaches the id to the job
PastAttach(j) == tasks[j].book_id # NULL /\ tasks[j].pc # "attach"

\* a job's book_id, once set, is the id its task registered and stays
BookIdKept ==
    [][\A j \in DOMAIN jobs :
          jobs[j].book_id # NULL => /\ j \in DOMAIN jobs'
                                    /\ jobs'[j].book_id = jobs[j].book_id]_vars
BookIdIsRegistered ==
    \A j \in DOMAIN jobs :
       jobs[j].book_id # NULL => /\ jobs[j].book_id = tasks[j].book_id
                                 /\ jobs[j].book_id \in 1..nextBook

\* C24 as stated: a job's book_id is null until its book is registered, holds
\* the registered id once the task is past the call that attaches it, and
\* never changes afterwards.
C24_BookIdSetOnceRegistered ==
    /\ [](BookIdIsRegistered)
    /\ [](\A j \in DOMAIN jobs : PastAttach(j) => jobs[j].book_id = tasks[j].book_id)
    /\ BookIdKept

\* C24: a job's book_id is null until its book is registered; when non-null
\* it is the id its task registered and it never changes again, whatever
\* update follows; it is still null after registration only if the update_job
\* call that attaches it raised, and then the job is never done.
C24_BookIdAttached ==
    /\ [](BookIdIsRegistered)
    /\ [](\A j \in DOMAIN jobs :
            (PastAttach(j) /\ jobs[j].book_id = NULL) =>
               /\ tasks[j].exc = "update_job failed"
               /\ tasks[j].pc \in {"except", "finished"}
               /\ jobs[j].status # "done")
    /\ BookIdKept

\* C24 witness: a job failed after its book id was attached and still holds it
C24_Witness ==
    \E j \in DOMAIN jobs :
       /\ jobs[j].status = "failed"
       /\ jobs[j].error = ErrPipeline
       /\ jobs[j].book_id # NULL
       /\ jobs[j].book_id = tasks[j].book_id

\* the chunks stored under the book of job j are none or all of its document
AllOrNothing(j) ==
    ChunksOf(chunks, tasks[j].book_id) \in {{}, UpsertParams(tasks[j].book_id, tasks[j].doc)}

====
